---- MODULE Spec2Model ----
(***************************************************************************)
(* Model of two qudi plugin modules:                                       *)
(*   - logic/joystick_logic.py : JoystickLogic, a timer driven poll loop   *)
(*   - gui/camera/cameragui.py : CameraGUI with its CrossROI / CrossLine   *)
(* Coordinates of the GUI are exact rationals kept as integers in units of *)
(* half a pixel, so that size * 0.5 is exact for integer sizes.            *)
(***************************************************************************)
EXTENDS Integers, Sequences, FiniteSets, TLC

VARIABLES
    \* ---- JoystickLogic ----
    timer,          \* "none" (timer = None), "inactive", "active" (single shot armed)
    timer_interval, \* interval of the last timer.start(), 0 if never started
    enabled,        \* self.enabled
    _fps,           \* self._fps
    _last_state,    \* self._last_state : None or {snapshot}
    device,         \* what self._hardware.get_state() returns now
    n_changes,      \* number of device changes so far (bounded)
    jop,            \* name of the last operation of JoystickLogic
    raised,         \* exception that ended the last operation, "none" if it returned
    state_read,     \* state returned by the most recent get_state(): None or {snapshot}
    old_state,      \* local old_state of the most recent loop(): None or {snapshot}
    poll_enabled,   \* value of self.enabled tested by the most recent loop()
    emitted,        \* signals emitted by the most recent loop(), in order
    rearmed,        \* number of timer.start() calls made by the most recent loop()
    returned,       \* value returned by the most recent get_last_state()
    stopped,        \* stop_loop has run and start_loop has not run since
    \* ---- CameraGUI / CrossROI / CrossLine (lengths in half pixels) ----
    roi_pos,        \* roi_xy.pos()  : <<x, y>>, the lower left corner
    roi_size,       \* roi_xy.size() : <<x, y>>
    userDrag,       \* roi_xy.userDrag
    hline_xy,       \* hline_xy.value() (angle 0)
    vline_xy,       \* vline_xy.value() (angle 90)
    x_pixels,       \* x_current_InputWidget_pixels.value()
    y_pixels,       \* y_current_InputWidget_pixels.value()
    x_meter,        \* x_current_InputWidget_meter.value()
    y_meter,        \* y_current_InputWidget_meter.value()
    cursor_size,    \* <<cursor_x_size_input.value(), cursor_y_size_input.value()>>
    _image_size,    \* self._image_size, in pixels: <<columns, rows>>
    _pixel_size,    \* <<self._pixel_size_x, self._pixel_size_y>>
    mask,           \* the mask update_intensity last got from create_mask_ROI
    mouse,          \* "drag" while the user drags the ROI or its handle, else "none"
    started,        \* a change or handle move has started and
                    \* sigRegionChangeFinished was not emitted since
    pre,            \* userDrag and started when the last GUI operation began
    cop,            \* name of the last GUI operation
    n_ops,          \* number of GUI operations so far (bounded)
    log             \* signals and calls of the last GUI operation, in order

jvars == <<timer, timer_interval, enabled, _fps, _last_state, device, n_changes,
           jop, raised, state_read, old_state, poll_enabled, emitted, rearmed,
           returned, stopped>>

cvars == <<roi_pos, roi_size, userDrag, hline_xy, vline_xy, x_pixels, y_pixels,
           x_meter, y_meter, cursor_size, _image_size, _pixel_size, mask, mouse,
           started, pre, cop, n_ops, log>>

vars == <<jvars, cvars>>

------------------------------------------------------------------------------
(* Bounds *)
MaxDeviceChanges == 2

(* Values fps(value) is called with *)
FpsValues == {50, 100}

------------------------------------------------------------------------------
(* JoystickLogic *)

_button_list == <<"left_up", "left_down", "left_left", "left_right", "left_joystick",
                  "right_up", "right_down", "right_left", "right_right", "right_joystick",
                  "middle_left", "middle_right", "left_shoulder", "right_shoulder">>

_axis_list == <<"left_vertical", "left_horizontal", "right_vertical", "right_horizontal",
                "left_trigger", "right_trigger">>

Buttons == {_button_list[i] : i \in 1..Len(_button_list)}
Axes == {_axis_list[i] : i \in 1..Len(_axis_list)}
Keys == Buttons \cup Axes

ButtonValues == {0, 1}
AxisValues == {-1, 0, 1}

\* Python None for an optional snapshot; a snapshot s is kept as {s}
None == {}

\* class attribute `events = None`; nothing assigns it
events == "None"

\* class attribute `_max_fps = ConfigOption('default_exposure', 100)`; `_fps = _max_fps`
_max_fps == 100

\* the instance has no attribute `_events` (only `events` is declared)
has__events == FALSE

\* the device at rest: no button pressed, all axes centred
RestState == [k \in Keys |-> 0]

\* the hardware's get_state()
get_state == {device}

\* interval handed to timer.start(): 1000*1/self._fps
Interval(f) == (1000 * 1) \div f

\* the comparison state[k] != old_state[k] of loop()
Differs(state, old, k) == state[k] # old[k]

\* The body of loop() after the two reads, as the record
\* [emitted, rearmed, raised] of what it does.
\*   en    : self.enabled
\*   old   : old_state (None or {snapshot})
\*   state : the snapshot just read
LoopBody(en, old, state) ==
    IF ~en
    THEN [emitted |-> <<>>, rearmed |-> 0, raised |-> "none"]
    ELSE IF old = None
    THEN \* old_state[button] on None
         [emitted |-> <<>>, rearmed |-> 0, raised |-> "TypeError"]
    ELSE LET o == CHOOSE s \in old : TRUE
             changedB == {i \in 1..Len(_button_list) : Differs(state, o, _button_list[i])}
             changedA == {i \in 1..Len(_axis_list) : Differs(state, o, _axis_list[i])}
             RECURSIVE ButtonEvents(_)
             ButtonEvents(i) ==
                 IF i > Len(_button_list) THEN <<>>
                 ELSE (IF i \in changedB
                       THEN <<<<_button_list[i], "value_change">>>> \o
                            (IF state[_button_list[i]] # 0
                             THEN <<<<_button_list[i], "pressed">>>> ELSE <<>>)
                       ELSE <<>>) \o ButtonEvents(i + 1)
             RECURSIVE AxisEvents(_)
             AxisEvents(i) ==
                 IF i > Len(_axis_list) THEN <<>>
                 ELSE (IF i \in changedA
                       THEN <<<<_axis_list[i], "value_change">>>> ELSE <<>>)
                      \o AxisEvents(i + 1)
             changed == changedB # {} \/ changedA # {}
         IN  IF changed /\ ~has__events
             THEN \* self._events[...] at the first differing button or axis
                  [emitted |-> <<>>, rearmed |-> 0, raised |-> "AttributeError"]
             ELSE [emitted |-> ButtonEvents(1) \o AxisEvents(1) \o
                               (IF changed THEN <<<<"sig_controller_changed", "emit">>>>
                                ELSE <<>>),
                   rearmed |-> 1, raised |-> "none"]

JInit ==
    /\ timer = "none"
    /\ timer_interval = 0
    /\ enabled = FALSE
    /\ _fps = _max_fps
    /\ _last_state = None
    /\ device = RestState
    /\ n_changes = 0
    /\ jop = "init"
    /\ raised = "none"
    /\ state_read = None
    /\ old_state = None
    /\ poll_enabled = FALSE
    /\ emitted = <<>>
    /\ rearmed = 0
    /\ returned = None
    /\ stopped = FALSE

\* start_loop(): self.enabled = True; self.timer.start(1000*1/self._fps)
start_loop ==
    /\ UNCHANGED cvars
    /\ timer # "none"
    /\ enabled' = TRUE
    /\ timer' = "active"
    /\ timer_interval' = Interval(_fps)
    /\ stopped' = FALSE
    /\ jop' = "start_loop"
    /\ raised' = "none"
    /\ UNCHANGED <<_fps, _last_state, device, n_changes, state_read, old_state,
                   poll_enabled, emitted, rearmed, returned>>

\* on_activate(): creates the single shot timer, then fills self.events,
\* which is None: the first item assignment raises and the rest
\* (reading _last_state, start_loop) is not executed.
on_activate ==
    /\ UNCHANGED cvars
    /\ timer = "none"
    /\ jop' = "on_activate"
    /\ IF events = "None"
       THEN /\ raised' = "TypeError"
            /\ timer' = "inactive"
            /\ UNCHANGED <<timer_interval, enabled, _last_state, state_read, stopped>>
       ELSE /\ raised' = "none"
            /\ _last_state' = get_state
            /\ state_read' = get_state
            /\ enabled' = TRUE
            /\ timer' = "active"
            /\ timer_interval' = Interval(_fps)
            /\ stopped' = FALSE
    /\ UNCHANGED <<_fps, device, n_changes, old_state, poll_enabled, emitted,
                   rearmed, returned>>

\* stop_loop() that stops the timer but leaves the flag set
stop_loop_keeps_enabled ==
    /\ UNCHANGED cvars
    /\ timer # "none"
    /\ timer' = "inactive"
    /\ stopped' = TRUE
    /\ jop' = "stop_loop"
    /\ raised' = "none"
    /\ UNCHANGED <<enabled, timer_interval, _fps, _last_state, device, n_changes,
                   state_read, old_state, poll_enabled, emitted, rearmed, returned>>

\* stop_loop(): self.timer.stop(); self.enabled = False
stop_loop ==
    /\ UNCHANGED cvars
    /\ timer # "none"
    /\ timer' = "inactive"
    /\ enabled' = FALSE
    /\ stopped' = TRUE
    /\ jop' = "stop_loop"
    /\ raised' = "none"
    /\ UNCHANGED <<timer_interval, _fps, _last_state, device, n_changes, state_read,
                   old_state, poll_enabled, emitted, rearmed, returned>>

\* on_deactivate(): self.stop_loop()
on_deactivate ==
    /\ UNCHANGED cvars
    /\ timer # "none"
    /\ timer' = "inactive"
    /\ enabled' = FALSE
    /\ stopped' = TRUE
    /\ jop' = "on_deactivate"
    /\ raised' = "none"
    /\ UNCHANGED <<timer_interval, _fps, _last_state, device, n_changes, state_read,
                   old_state, poll_enabled, emitted, rearmed, returned>>

\* fps(value): sets self._fps when a value is given
fps ==
    /\ UNCHANGED cvars
    /\ timer # "none"
    /\ \E value \in FpsValues : _fps' = value
    /\ jop' = "fps"
    /\ raised' = "none"
    /\ UNCHANGED <<timer, timer_interval, enabled, _last_state, device, n_changes,
                   state_read, old_state, poll_enabled, emitted, rearmed, returned,
                   stopped>>

\* loop(): one poll.  fired is TRUE when the single shot timer delivered it.
loop(fired) ==
    /\ UNCHANGED cvars
    /\ LET r == LoopBody(enabled, _last_state, device)
       IN  /\ old_state' = _last_state
           /\ state_read' = get_state
           /\ poll_enabled' = enabled
           /\ emitted' = r.emitted
           /\ rearmed' = r.rearmed
           /\ raised' = r.raised
           /\ timer' = IF r.rearmed > 0 THEN "active"
                       ELSE IF fired THEN "inactive" ELSE timer
           /\ timer_interval' = IF r.rearmed > 0 THEN Interval(_fps) ELSE timer_interval
    /\ jop' = "loop"
    /\ UNCHANGED <<enabled, _fps, _last_state, device, n_changes, returned, stopped>>

\* the timer's timeout signal calls loop
loop_timeout ==
    /\ timer = "active"
    /\ loop(TRUE)

\* loop called while the timer is not the caller (a timeout already queued
\* when the timer was stopped, or a direct call)
loop_call ==
    /\ timer # "none"
    /\ loop(FALSE)

\* get_last_state(): return self._last_state
get_last_state ==
    /\ UNCHANGED cvars
    /\ timer # "none"
    /\ returned' = _last_state
    /\ jop' = "get_last_state"
    /\ raised' = "none"
    /\ UNCHANGED <<timer, timer_interval, enabled, _fps, _last_state, device, n_changes,
                   state_read, old_state, poll_enabled, emitted, rearmed, stopped>>

\* the user moves one control of the device
device_change ==
    /\ UNCHANGED cvars
    /\ n_changes < MaxDeviceChanges
    /\ \E k \in Keys :
         \E v \in (IF k \in Buttons THEN ButtonValues ELSE AxisValues) :
            /\ v # device[k]
            /\ device' = [device EXCEPT ![k] = v]
    /\ n_changes' = n_changes + 1
    /\ jop' = "device_change"
    /\ UNCHANGED <<timer, timer_interval, enabled, _fps, _last_state, raised,
                   state_read, old_state, poll_enabled, emitted, rearmed, returned,
                   stopped>>

JNext ==
    \/ on_activate
    \/ start_loop
    \/ stop_loop
    \/ on_deactivate
    \/ fps
    \/ loop_timeout
    \/ loop_call
    \/ get_last_state
    \/ device_change


------------------------------------------------------------------------------
(* CameraGUI, CrossROI, CrossLine *)

\* a length given in pixels, in the model's unit of half a pixel
Px(n) == 2 * n

\* half of a length: x * 0.5 (lengths that are halved are whole pixels)
Half(x) == x \div 2

\* class attribute `_image_size = (1000,1000)`
_image_size_default == <<1000, 1000>>

\* shapes (rows, columns) of the images the camera logic hands to update_data
ImageShapes == {<<6, 8>>}

\* values <<pixel_size_x, pixel_size_y>> of the configuration options
\* (1 is the default of each)
PixelSizes == {<<1, 2>>, <<2, 1>>}

\* number of GUI operations in a behaviour
MaxOps == 5

\* largest cursor size, in pixels, the user types into the size inputs
MaxSize == 2
SizeInputs == {Px(n) : n \in 1..MaxSize}

\* corners a mouse drag moves the ROI to, in half pixels:
\* (-3, 2.5), (2.5, 1002) and (6.5, 6.5) pixels
DragTargets == {<<-6, 5>>, <<5, 2004>>, <<13, 13>>}

\* values the user types into a pixel position input: 3 pixels
PixelInputs == {6}

\* values the user types into a meter position input: 4
MeterInputs == {8}


\* an argument that is given, and the value of a given argument
Some(x) == {x}
Val(o) == CHOOSE x \in o : TRUE

\* arguments <<x, y>> update_from_key is called with: -1 and 4.5 pixels
KeyInputs == {<<Some(-2), None>>, <<None, Some(9)>>, <<Some(9), Some(-2)>>}

Clamp(v, lo, hi) == IF v < lo THEN lo ELSE IF v > hi THEN hi ELSE v

\* setRange(0, _image_size[a]) of the pixel inputs and
\* setRange(0, _image_size[a] * _pixel_size) of the meter inputs, made once in
\* createCrosshair; setValue of a spin box keeps the value inside its range
PixelRange(a) == Px(_image_size_default[a])
MeterRange(a) == Px(_image_size_default[a]) * _pixel_size[a]
setValue(v, max) == Clamp(v, 0, max)

\* the centre of the ROI on axis a: pos + 0.5 * size
Centre(g, a) == g.pos[a] + Half(g.size[a])

\* Python int() of a length: truncation toward zero, in whole pixels
PyInt(x) == IF x >= 0 THEN x \div 2 ELSE -((-x) \div 2)

\* create_mask_ROI: the mask is 1 on range(h[1], h[2]) x range(v[1], v[2])
\* (columns h, rows v) and 0 elsewhere
create_mask_ROI(pos, size, img) ==
    LET h_lo == PyInt(pos[1] - Half(size[1]))
        h_hi == PyInt(pos[1] + Half(size[1])) + 1
        v_lo == PyInt(pos[2] - Half(size[2]))
        v_hi == PyInt(pos[2] + Half(size[2])) + 1
    IN  [h |-> << IF pos[1] - size[1] <= 0 THEN 0 ELSE h_lo,
                  IF pos[1] + size[1] >= Px(img[1]) THEN img[1] ELSE h_hi >>,
         v |-> << IF pos[2] - size[2] <= 0 THEN 0 ELSE v_lo,
                  IF pos[2] + size[2] >= Px(img[2]) THEN img[2] ELSE v_hi >>]

\* the working state of one GUI operation
G == [pos |-> roi_pos, size |-> roi_size, userDrag |-> userDrag, started |-> started,
      hline |-> hline_xy, vline |-> vline_xy,
      pix |-> <<x_pixels, y_pixels>>, meter |-> <<x_meter, y_meter>>,
      mask |-> mask, log |-> <<>>]

Log(g, e) == [g EXCEPT !.log = Append(@, e)]

\* the record of a position display operation on axis a, taken when it returns
Sync(g, op, a) == Log(g, <<"sync", op, a, g.pix[a], g.meter[a], Centre(g, a)>>)

\* update_intensity: computes the mask of the ROI on the current image
update_intensity(g) ==
    [g EXCEPT !.mask = create_mask_ROI(g.pos, g.size, _image_size)]

\* CrossLine.adjust with the two coordinates exchanged
adjust_swapped(value, angle, extroi) ==
    IF angle = 0 THEN extroi.pos[1] + Half(extroi.size[1])
    ELSE IF angle = 90 THEN extroi.pos[2] + Half(extroi.size[2])
    ELSE value

\* CrossLine.adjust
adjust(value, angle, extroi) ==
    IF angle = 0 THEN extroi.pos[2] + Half(extroi.size[2])
    ELSE IF angle = 90 THEN extroi.pos[1] + Half(extroi.size[1])
    ELSE value

\* update_input_x / update_input_y that show the pixel value in the meter field
update_input_no_scale(g, a, pos) ==
    [g EXCEPT !.pix[a] = setValue(pos, PixelRange(a)),
              !.meter[a] = setValue(pos, MeterRange(a))]

\* update_input_x / update_input_y
update_input(g, a, pos) ==
    [g EXCEPT !.pix[a] = setValue(pos, PixelRange(a)),
              !.meter[a] = setValue(pos * _pixel_size[a], MeterRange(a))]

update_input_x(g, x_pos) == Sync(update_input(g, 1, x_pos), "update_input_x", 1)

update_input_y(g, y_pos) == Sync(update_input(g, 2, y_pos), "update_input_y", 2)

\* update_from_roi_xy, the slot of sigUserRegionUpdate
update_from_roi_xy(g) ==
    LET h_pos == Centre(g, 1)
        v_pos == Centre(g, 2)
    IN  update_intensity(
            update_input_y(
                update_input_x(Log(g, <<"update_from_roi_xy">>), h_pos), v_pos))

\* CrossROI.regionUpdateInfo
regionUpdateInfo(g) ==
    IF g.userDrag
    THEN update_from_roi_xy(Log(g, <<"sigUserRegionUpdate", g.started>>))
    ELSE Log(g, <<"sigMachineRegionUpdate", g.started>>)

\* sigRegionChanged: its slots in the order they were connected,
\* regionUpdateInfo (CrossROI.__init__), hline_xy.adjust, vline_xy.adjust
sigRegionChanged(g) ==
    LET g1 == regionUpdateInfo(Log(g, <<"sigRegionChanged">>))
        g2 == [g1 EXCEPT !.hline = adjust(@, 0, g1)]
    IN  [g2 EXCEPT !.vline = adjust(@, 90, g2)]

\* CrossROI.setPos(pos): update=True, finish=False; the region changed signal
\* is emitted when the state differs from the last one
setPos(g, pos) ==
    LET g1 == [g EXCEPT !.pos = pos]
    IN  IF pos # g.pos THEN sigRegionChanged(g1) ELSE g1

\* what update_roi_xy can read or change of the ROI and the position fields
View(g) == [pos |-> g.pos, size |-> g.size, pix |-> g.pix, meter |-> g.meter,
            userDrag |-> g.userDrag]

\* the record of a call of update_roi_xy(h, v), taken when it returns;
\* before is the View at the call
Moved(g, h, v, before) == Log(g, <<"update_roi_xy", h, v, before, View(g)>>)

\* update_roi_xy that takes h and v as the lower left corner of the ROI
update_roi_xy_corner(g, h, v) ==
    LET roi_h_view == IF h # None THEN Val(h) ELSE g.pos[1]
        roi_v_view == IF v # None THEN Val(v) ELSE g.pos[2]
    IN  Moved(update_intensity(setPos(g, <<roi_h_view, roi_v_view>>)), h, v, View(g))

\* update_roi_xy(h, v); an argument not given is None
update_roi_xy(g, h, v) ==
    LET roi_h_view == IF h # None THEN Val(h) - Half(g.size[1]) ELSE g.pos[1]
        roi_v_view == IF v # None THEN Val(v) - Half(g.size[2]) ELSE g.pos[2]
    IN  Moved(update_intensity(setPos(g, <<roi_h_view, roi_v_view>>)), h, v, View(g))

\* roi_xy_bounds_check that compares the vertical position with the
\* horizontal limit
roi_xy_bounds_check_one_limit(g) ==
    LET h_pos == Centre(g, 1)
        v_pos == Centre(g, 2)
        max_h_pos == Px(_image_size[1])
        max_v_pos == Px(_image_size[1])
        new_h_pos == IF h_pos < 0 THEN 0
                     ELSE IF h_pos > max_h_pos THEN max_h_pos ELSE h_pos
        new_v_pos == IF v_pos < 0 THEN 0
                     ELSE IF v_pos > max_v_pos THEN max_v_pos ELSE v_pos
        g1 == update_roi_xy(Log(g, <<"roi_xy_bounds_check", h_pos, v_pos>>),
                            Some(new_h_pos), Some(new_v_pos))
    IN  Log(g1, <<"roi_xy_bounds_check returned", h_pos, v_pos,
                  Centre(g1, 1), Centre(g1, 2)>>)

\* roi_xy_bounds_check, a slot of sigRegionChangeFinished
roi_xy_bounds_check(g) ==
    LET h_pos == Centre(g, 1)
        v_pos == Centre(g, 2)
        max_h_pos == Px(_image_size[1])
        max_v_pos == Px(_image_size[2])
        new_h_pos == IF h_pos < 0 THEN 0
                     ELSE IF h_pos > max_h_pos THEN max_h_pos ELSE h_pos
        new_v_pos == IF v_pos < 0 THEN 0
                     ELSE IF v_pos > max_v_pos THEN max_v_pos ELSE v_pos
        g1 == update_roi_xy(Log(g, <<"roi_xy_bounds_check", h_pos, v_pos>>),
                            Some(new_h_pos), Some(new_v_pos))
    IN  Log(g1, <<"roi_xy_bounds_check returned", h_pos, v_pos,
                  Centre(g1, 1), Centre(g1, 2)>>)

\* CrossROI.startUserDrag, the slot of sigRegionChangeStarted
startUserDrag(g) == [g EXCEPT !.userDrag = TRUE]

\* CrossROI.stopUserDrag that leaves the flag set
stopUserDrag_keeps_flag(g) == g

\* CrossROI.stopUserDrag, a slot of sigRegionChangeFinished
stopUserDrag(g) == [g EXCEPT !.userDrag = FALSE]

\* sigRegionChangeFinished: its slots in the order they were connected,
\* stopUserDrag (CrossROI.__init__), roi_xy_bounds_check (createCrosshair)
sigRegionChangeFinished(g) ==
    roi_xy_bounds_check(
        stopUserDrag(Log([g EXCEPT !.started = FALSE], <<"sigRegionChangeFinished">>)))

\* CrossROI.setSize(size): update=True, finish=True
setSize(g, size) ==
    LET g1 == [g EXCEPT !.size = size]
        g2 == IF size # g.size THEN sigRegionChanged(g1) ELSE g1
    IN  sigRegionChangeFinished(g2)

\* update_from_input_x
update_from_input_x(g) ==
    LET x_pos == g.pix[1]
        g1 == update_roi_xy(g, Some(x_pos), None)
    IN  Sync([g1 EXCEPT !.meter[1] = setValue(x_pos * _pixel_size[1], MeterRange(1))],
             "update_from_input_x", 1)

\* update_from_input_x_meter
update_from_input_x_meter(g) ==
    LET x_pos == g.meter[1] \div _pixel_size[1]
        g1 == update_roi_xy(g, Some(x_pos), None)
    IN  Sync([g1 EXCEPT !.pix[1] = setValue(x_pos, PixelRange(1))],
             "update_from_input_x_meter", 1)

\* update_from_input_y
update_from_input_y(g) ==
    LET y_pos == g.pix[2]
        g1 == update_roi_xy(g, None, Some(y_pos))
    IN  Sync([g1 EXCEPT !.meter[2] = setValue(y_pos * _pixel_size[2], MeterRange(2))],
             "update_from_input_y", 2)

\* update_from_input_y_meter
update_from_input_y_meter(g) ==
    LET y_pos_meter == g.meter[2]
        g1 == update_roi_xy(g, None, Some(y_pos_meter \div _pixel_size[2]))
    IN  Sync([g1 EXCEPT !.pix[2] = setValue(y_pos_meter \div _pixel_size[2],
                                            PixelRange(2))],
             "update_from_input_y_meter", 2)

\* update_from_key(x, y); an argument not given is None
update_from_key(g, x, y) ==
    LET g1 == IF x # None
              THEN update_input_x(update_roi_xy(g, x, None), Val(x))
              ELSE g
        g2 == IF y # None
              THEN update_input_y(update_roi_xy(g1, None, y), Val(y))
              ELSE g1
    IN  update_intensity(g2)

\* update_from_input_xy_size
update_from_input_xy_size(g, sizes) ==
    LET x_size == sizes[1]
        y_size == sizes[2]
    IN  update_intensity(setSize(g, <<x_size, y_size>>))

\* the state an operation leaves behind
Commit(result, name) ==
    /\ n_ops < MaxOps
    /\ n_ops' = n_ops + 1
    /\ \E g \in {result} :
       /\ roi_pos' = g.pos
       /\ roi_size' = g.size
       /\ userDrag' = g.userDrag
       /\ started' = g.started
       /\ hline_xy' = g.hline
       /\ vline_xy' = g.vline
       /\ x_pixels' = g.pix[1]
       /\ y_pixels' = g.pix[2]
       /\ x_meter' = g.meter[1]
       /\ y_meter' = g.meter[2]
       /\ mask' = g.mask
       /\ log' = g.log
    /\ pre' = [userDrag |-> userDrag, started |-> started]
    /\ cop' = name
    /\ UNCHANGED jvars

\* The state after CameraGUI.on_activate: createCrosshair, then update_intensity
CInit ==
    /\ roi_pos = <<Px(5), Px(5)>>
    /\ roi_size = <<Px(1), Px(1)>>
    /\ userDrag = FALSE
    /\ hline_xy = Px(5) + Half(Px(1))
    /\ vline_xy = Px(5) + Half(Px(1))
    /\ _image_size = _image_size_default
    /\ _pixel_size \in PixelSizes
    /\ x_pixels = Px(5)
    /\ y_pixels = Px(5)
    /\ x_meter = Px(5) * _pixel_size[1]
    /\ y_meter = Px(5) * _pixel_size[2]
    /\ cursor_size = <<Px(1), Px(1)>>
    /\ mask = create_mask_ROI(<<Px(5), Px(5)>>, <<Px(1), Px(1)>>, _image_size_default)
    /\ mouse = "none"
    /\ started = FALSE
    /\ pre = [userDrag |-> FALSE, started |-> FALSE]
    /\ cop = "on_activate"
    /\ n_ops = 0
    /\ log = <<>>

\* the user presses the mouse on the ROI and starts to drag it: the ROI emits
\* sigRegionChangeStarted
mouse_drag_start ==
    /\ mouse = "none"
    /\ mouse' = "drag"
    /\ Commit(startUserDrag(Log([G EXCEPT !.started = TRUE],
                                <<"sigRegionChangeStarted">>)),
              "mouse_drag_start")
    /\ UNCHANGED <<cursor_size, _image_size, _pixel_size>>

\* CrossROI.handleMoveStarted: the user starts to drag the centre handle
handleMoveStarted ==
    /\ mouse = "none"
    /\ mouse' = "drag"
    /\ Commit([G EXCEPT !.started = TRUE, !.userDrag = TRUE], "handleMoveStarted")
    /\ UNCHANGED <<cursor_size, _image_size, _pixel_size>>

\* the mouse moves during a drag of the ROI or of its handle: the ROI is
\* translated with setPos(..., finish=False)
mouse_drag_move ==
    /\ mouse # "none"
    /\ \E p \in DragTargets : Commit(setPos(G, p), "mouse_drag_move")
    /\ UNCHANGED <<cursor_size, _image_size, _pixel_size, mouse>>

\* the mouse is released: the ROI emits sigRegionChangeFinished
mouse_drag_finish ==
    /\ mouse # "none"
    /\ mouse' = "none"
    /\ Commit(sigRegionChangeFinished(G), "mouse_drag_finish")
    /\ UNCHANGED <<cursor_size, _image_size, _pixel_size>>

\* editingFinished of x_current_InputWidget_pixels, after the user typed x
\* (or left the field as it was)
edit_x_pixels ==
    /\ \E x \in PixelInputs \cup {x_pixels} :
         Commit(update_from_input_x([G EXCEPT !.pix[1] = x]), "update_from_input_x")
    /\ UNCHANGED <<cursor_size, _image_size, _pixel_size, mouse>>

\* editingFinished of y_current_InputWidget_pixels
edit_y_pixels ==
    /\ \E y \in PixelInputs \cup {y_pixels} :
         Commit(update_from_input_y([G EXCEPT !.pix[2] = y]), "update_from_input_y")
    /\ UNCHANGED <<cursor_size, _image_size, _pixel_size, mouse>>

\* editingFinished of x_current_InputWidget_meter
edit_x_meter ==
    /\ \E x \in MeterInputs \cup {x_meter} :
         Commit(update_from_input_x_meter([G EXCEPT !.meter[1] = x]),
                "update_from_input_x_meter")
    /\ UNCHANGED <<cursor_size, _image_size, _pixel_size, mouse>>

\* editingFinished of y_current_InputWidget_meter
edit_y_meter ==
    /\ \E y \in MeterInputs \cup {y_meter} :
         Commit(update_from_input_y_meter([G EXCEPT !.meter[2] = y]),
                "update_from_input_y_meter")
    /\ UNCHANGED <<cursor_size, _image_size, _pixel_size, mouse>>

\* editingFinished of cursor_x_size_input or cursor_y_size_input
edit_size ==
    /\ \E a \in {1, 2} : \E s \in SizeInputs :
         LET sizes == [cursor_size EXCEPT ![a] = s]
         IN  /\ cursor_size' = sizes
             /\ Commit(update_from_input_xy_size(G, sizes), "update_from_input_xy_size")
    /\ UNCHANGED <<_image_size, _pixel_size, mouse>>

\* update_from_key(x, y) called with one or both coordinates
key_pressed ==
    /\ \E k \in KeyInputs : Commit(update_from_key(G, k[1], k[2]), "update_from_key")
    /\ UNCHANGED <<cursor_size, _image_size, _pixel_size, mouse>>

\* update_data: a new image of the camera logic is shown
update_data ==
    /\ \E shape \in ImageShapes :
         LET size == <<shape[2], shape[1]>>
         IN  /\ _image_size' = size
             /\ Commit([G EXCEPT !.mask = create_mask_ROI(roi_pos, roi_size, size)],
                       "update_data")
    /\ UNCHANGED <<cursor_size, _pixel_size, mouse>>

CNext ==
    \/ mouse_drag_start
    \/ handleMoveStarted
    \/ mouse_drag_move
    \/ mouse_drag_finish
    \/ edit_x_pixels
    \/ edit_y_pixels
    \/ edit_x_meter
    \/ edit_y_meter
    \/ edit_size
    \/ key_pressed
    \/ update_data

------------------------------------------------------------------------------
(* Specifications *)

Init == JInit /\ CInit

\* JoystickLogic alone, beside a camera GUI that is left alone
Spec == Init /\ [][JNext]_vars

\* CameraGUI alone, beside a joystick logic that is not activated
SpecCamera == Init /\ [][CNext]_vars

------------------------------------------------------------------------------
(* Properties of JoystickLogic *)

\* an enabled poll has just run: loop() passed its `if not self.enabled` test
EnabledPoll == jop = "loop" /\ poll_enabled

\* the number of sig_controller_changed emissions of the most recent loop()
NumControllerChanged ==
    Cardinality({i \in 1..Len(emitted) : emitted[i][1] = "sig_controller_changed"})

\* some button or axis has a value in the new snapshot that the compared
\* snapshot does not have; None holds no value at all
SnapshotsDiffer(new, old) ==
    /\ new # None
    /\ \/ old = None
       \/ \E s \in new : \E o \in old : \E k \in Keys : s[k] # o[k]

\* C1: every enabled poll compares the state it has just read with the state
\* read by the immediately preceding read: in a step that is an enabled poll,
\* the baseline old_state of that poll is the state the preceding read returned
\* (state_read before the step).
C1_BaselineIsPrecedingRead ==
    [][(jop' = "loop" /\ poll_enabled') => (old_state' = state_read)]_vars

\* C2: an enabled poll emits sig_controller_changed exactly once if a button
\* or axis value of the new snapshot differs from the compared snapshot, and
\* not at all if all are equal.
C2_ControllerChangedOnceIffDiff ==
    EnabledPoll =>
        NumControllerChanged = (IF SnapshotsDiffer(state_read, old_state) THEN 1 ELSE 0)

\* C3: get_last_state returns the state read by the most recent get_state of
\* the hardware.
C3_LastStateIsLastRead ==
    (jop = "get_last_state") => (returned = state_read)

\* C4: timer armed implies enabled; from stop_loop until the next start_loop
\* enabled is false and the timer is not armed, and a loop() that runs in that
\* period emits nothing and does not re-arm the timer.
C4_EnabledGatesLoop ==
    /\ (timer = "active") => enabled
    /\ stopped => (~enabled /\ timer # "active")
    /\ (stopped /\ jop = "loop") => (emitted = <<>> /\ rearmed = 0 /\ ~poll_enabled)

\* C4 witness: a loop() has run after stop_loop and before any start_loop,
\* and read the hardware
C4_Witness ==
    stopped /\ jop = "loop" /\ state_read # None /\ timer_interval > 0

\* C5: every poll that runs while enabled re-arms the single shot timer
\* exactly once, with interval 1000/_fps.
C5_EnabledPollRearms ==
    EnabledPoll =>
        (rearmed = 1 /\ timer = "active" /\ timer_interval = Interval(_fps))

\* the value of control k differs between the snapshot just read and the
\* compared snapshot; None holds no value at all
ControlDiffers(k) ==
    /\ state_read # None
    /\ \/ old_state = None
       \/ \E s \in state_read : \E o \in old_state : s[k] # o[k]

\* the positions in the emissions of the most recent loop() of event e of
\* control k
Emissions(k, e) == {i \in 1..Len(emitted) : emitted[i] = <<k, e>>}

\* C11: in an enabled poll, every button whose value differs between the two
\* compared snapshots has its value_change event emitted, and its pressed
\* event emitted after it exactly when the new value is truthy; every axis
\* whose value differs has its value_change event emitted; no event of a
\* control whose value is equal in both snapshots is emitted.
C11_PerControlEvents ==
    EnabledPoll =>
        \A k \in Keys :
            /\ ControlDiffers(k) => Emissions(k, "value_change") # {}
            /\ (k \in Buttons) =>
                  ((\E i \in Emissions(k, "value_change") :
                       \E j \in Emissions(k, "pressed") : i < j)
                   <=> (ControlDiffers(k) /\ \E s \in state_read : s[k] # 0))
            /\ ~ControlDiffers(k) =>
                  (Emissions(k, "value_change") = {} /\ Emissions(k, "pressed") = {})

------------------------------------------------------------------------------
(* Properties of CameraGUI *)

LogIndex == 1..Len(log)

\* the entries of the log with the given name
Entries(name) == {i \in LogIndex : log[i][1] = name}

RegionUpdates == Entries("sigUserRegionUpdate") \cup Entries("sigMachineRegionUpdate")

\* C6: the crosshair tracks the centre of the ROI: the horizontal line is at
\* pos.y + size.y/2 and the vertical line at pos.x + size.x/2, whatever
\* changed the position or the size of the ROI.
C6_CrosshairTracksCentre ==
    /\ hline_xy = roi_pos[2] + Half(roi_size[2])
    /\ vline_xy = roi_pos[1] + Half(roi_size[1])

\* C6 witness: the ROI was moved or resized by the last operation, away from
\* where it was created, to a centre whose coordinates differ
C6_Witness ==
    /\ Entries("sigRegionChanged") # {}
    /\ roi_pos # <<Px(5), Px(5)>>
    /\ roi_size # <<Px(1), Px(1)>>
    /\ hline_xy # vline_xy

\* C7: when roi_xy_bounds_check has run, the centre of the ROI lies in
\* [0, _image_size[0]] x [0, _image_size[1]]; a coordinate that was out of
\* range is at the nearest limit and a coordinate in range is unchanged.
C7_BoundsClamped ==
    \A i \in Entries("roi_xy_bounds_check returned") :
        LET h_pos == log[i][2]
            v_pos == log[i][3]
            cx == log[i][4]
            cy == log[i][5]
        IN  /\ 0 <= cx /\ cx <= Px(_image_size[1])
            /\ 0 <= cy /\ cy <= Px(_image_size[2])
            /\ cx = Clamp(h_pos, 0, Px(_image_size[1]))
            /\ cy = Clamp(v_pos, 0, Px(_image_size[2]))
            /\ roi_pos[1] + Half(roi_size[1]) = cx
            /\ roi_pos[2] + Half(roi_size[2]) = cy

\* C7 witness: a bounds check found one coordinate beyond its upper limit and
\* the other in range
C7_Witness ==
    \E i \in Entries("roi_xy_bounds_check returned") :
        /\ log[i][3] > Px(_image_size[2])
        /\ log[i][2] > 0 /\ log[i][2] < Px(_image_size[1])

\* the position display operations of the last GUI operation
Syncs == Entries("sync")

\* C8 as stated: after each position display operation the meter field is the
\* pixel field times the pixel size and the ROI centre equals the pixel field.
C8_FieldsEqualCentre ==
    \A i \in Syncs :
        LET a == log[i][3]
            pix == log[i][4]
            meter == log[i][5]
            centre == log[i][6]
        IN  /\ meter = pix * _pixel_size[a]
            /\ centre = pix

\* C8 amended: after each position display operation the meter field is the
\* pixel field times the pixel size, and the pixel field is the ROI centre
\* clamped to the range of the field (equal to it when the centre is in range).
C8_FieldsEqualClampedCentre ==
    \A i \in Syncs :
        LET a == log[i][3]
            pix == log[i][4]
            meter == log[i][5]
            centre == log[i][6]
        IN  /\ meter = pix * _pixel_size[a]
            /\ pix = Clamp(centre, 0, PixelRange(a))
            /\ (0 <= centre /\ centre <= PixelRange(a)) => centre = pix

\* C8 witness: a user drag took the centre below 0 on an axis whose pixel size
\* is not 1, and the display of that axis was updated
C8_Witness ==
    \E i \in Syncs :
        /\ log[i][6] < 0
        /\ log[i][4] = 0
        /\ _pixel_size[log[i][3]] # 1

\* the ROI rectangle lies inside the image
RoiInsideImage ==
    \A a \in {1, 2} :
        roi_pos[a] >= 0 /\ roi_pos[a] + roi_size[a] <= Px(_image_size[a])

\* the pixels p of axis a that the interval [pos, pos + size] of the ROI covers:
\* pixel p occupies [p, p + 1]
CoveredPixels(a) ==
    {p \in (PyInt(roi_pos[a]) - 2)..(PyInt(roi_pos[a] + roi_size[a]) + 2) :
        Px(p) < roi_pos[a] + roi_size[a] /\ Px(p + 1) > roi_pos[a]}

\* C9: for an ROI inside the image the mask is 1 exactly at the pixels (v, h)
\* the ROI rectangle covers.
C9_MaskIsRoi ==
    RoiInsideImage =>
        /\ mask.h[1]..(mask.h[2] - 1) = CoveredPixels(1)
        /\ mask.v[1]..(mask.v[2] - 1) = CoveredPixels(2)

\* the operations that move the ROI with update_roi_xy and nothing else
ProgrammaticOps == {"update_from_input_x", "update_from_input_y",
                    "update_from_input_x_meter", "update_from_input_y_meter",
                    "update_from_key"}

\* C10: every region change is reported by exactly one of sigUserRegionUpdate
\* and sigMachineRegionUpdate, the former exactly when a change or handle move
\* has started and sigRegionChangeFinished was not emitted since; update_from_roi_xy
\* runs for user updates only; a programmatic setPos emits no
\* sigRegionChangeFinished and leaves userDrag as it was, and outside a drag it is
\* a machine update.
C10_UserDragDetection ==
    /\ userDrag = started
    /\ \A i \in Entries("sigRegionChanged") : i + 1 \in RegionUpdates
    /\ Cardinality(RegionUpdates) = Cardinality(Entries("sigRegionChanged"))
    /\ \A i \in RegionUpdates : (log[i][1] = "sigUserRegionUpdate") <=> log[i][2]
    /\ \A i \in Entries("update_from_roi_xy") : i - 1 \in Entries("sigUserRegionUpdate")
    /\ \A i \in Entries("sigUserRegionUpdate") : i + 1 \in Entries("update_from_roi_xy")
    /\ \A i \in RegionUpdates :
          (\E j \in Entries("roi_xy_bounds_check") : j < i)
              => log[i][1] = "sigMachineRegionUpdate"
    /\ (cop \in ProgrammaticOps) =>
          /\ Entries("sigRegionChangeFinished") = {}
          /\ userDrag = pre.userDrag
          /\ ~pre.started =>
                /\ Entries("sigUserRegionUpdate") = {}
                /\ Entries("update_from_roi_xy") = {}

\* C10 witness: a drag ended out of bounds, and the setPos of the bounds check
\* was reported as a machine update
C10_Witness ==
    /\ pre.userDrag
    /\ cop = "mouse_drag_finish"
    /\ \E j \in Entries("roi_xy_bounds_check") :
          \E i \in Entries("sigMachineRegionUpdate") : j < i

\* the calls of update_roi_xy made by the operation of this step
Moves == {i \in 1..Len(log') : log'[i][1] = "update_roi_xy"}

\* the centre of the ROI of a View on axis a
ViewCentre(w, a) == w.pos[a] + Half(w.size[a])

\* what a call of update_roi_xy(h, v) does to the ROI: the centre is at the
\* coordinates given, a coordinate not given is kept, the size is kept
MovesCentre(h, v, before, after) ==
    /\ (h # None) => ViewCentre(after, 1) = Val(h)
    /\ (v # None) => ViewCentre(after, 2) = Val(v)
    /\ (h = None) => after.pos[1] = before.pos[1]
    /\ (v = None) => after.pos[2] = before.pos[2]
    /\ after.size = before.size

\* the position fields are as they were at the call
FieldsKept(before, after) == after.pix = before.pix /\ after.meter = before.meter

\* the position fields show the centre of the ROI, as update_from_roi_xy
\* leaves them
FieldsShowCentre(after) ==
    \A a \in {1, 2} :
        /\ after.pix[a] = setValue(ViewCentre(after, a), PixelRange(a))
        /\ after.meter[a] = setValue(ViewCentre(after, a) * _pixel_size[a], MeterRange(a))

\* C12: update_roi_xy(h, v) moves the ROI so that its centre equals the given
\* coordinates, a coordinate that is not given keeps its previous value, and
\* the ROI size, _image_size and the position input fields are unchanged.
C12_UpdateRoiFrame ==
    [][\A i \in Moves :
          /\ MovesCentre(log'[i][2], log'[i][3], log'[i][4], log'[i][5])
          /\ FieldsKept(log'[i][4], log'[i][5])
          /\ _image_size' = _image_size]_vars

\* C12, with the position fields kept only outside a user drag: update_roi_xy(h, v)
\* moves the ROI so that its centre equals the given coordinates, keeps a
\* coordinate that is not given, the ROI size and _image_size; the position
\* input fields are unchanged when userDrag is not set or the position does not
\* change, and show the new centre (kept in their range) when the position
\* changes while userDrag is set.
C12_UpdateRoiFrameOutsideDrag ==
    [][\A i \in Moves :
          LET before == log'[i][4]
              after == log'[i][5]
          IN  /\ MovesCentre(log'[i][2], log'[i][3], before, after)
              /\ _image_size' = _image_size
              /\ after.userDrag = before.userDrag
              /\ (~before.userDrag \/ after.pos = before.pos)
                    => FieldsKept(before, after)
              /\ (before.userDrag /\ after.pos # before.pos)
                    => FieldsShowCentre(after)]_vars

\* C12 witness: update_roi_xy was called outside a drag with h alone and moved
\* the ROI, of a size other than the initial one, to a centre that the x
\* fields do not show
C12_Witness ==
    \E i \in Entries("update_roi_xy") :
        /\ log[i][2] # None /\ log[i][3] = None
        /\ ~log[i][4].userDrag
        /\ log[i][5].pos # log[i][4].pos
        /\ log[i][5].size # <<Px(1), Px(1)>>
        /\ ViewCentre(log[i][5], 1) = Val(log[i][2])
        /\ log[i][5].pix[1] # ViewCentre(log[i][5], 1)

====
